---- MODULE Spec2Model ----
(***************************************************************************)
(* TRF Volume Calculator (src/app.py): the catalog loaded by               *)
(* load_product_info, the resolver match_product, and the run of           *)
(* process_warehouse_file with its pool of four workers, up to the         *)
(* result table and what the page shows.                                   *)
(*                                                                         *)
(* Text is a tuple of one-character strings (<<"a","b">> is "ab").         *)
(* An optional value is a tuple: <<>> is None / NaN, <<v>> is the value v. *)
(* CBM values and quantities are naturals; floating-point rounding is not  *)
(* modelled.                                                               *)
(***************************************************************************)
EXTENDS Integers, Sequences, FiniteSets, TLC

VARIABLES
    product_dict,        \* app.py:57  name -> CBM
    product_name_list,   \* app.py:57  every catalog name, in sheet order
    catalog_df,          \* app.py:44  the catalog sheet as read
    query, answer,       \* a direct call of match_product and what it gave
    pc,                  \* where the Calculate run stands
    warehouse_df,        \* app.py:76  the uploaded sheet as read
    product_names,       \* app.py:79
    quantities,          \* app.py:80
    total,               \* app.py:85
    volumes,             \* app.py:86
    step,                \* app.py:97
    futures,             \* app.py:98  one record per submitted worker
    fut_i,               \* app.py:99  the submit loop's i
    fut_k,               \* app.py:103 how many futures the caller has read
    raised,              \* the exception travelling up the caller, if any
    match_calls,         \* names match_product was called with by the workers
    scorer_calls,        \* names handed to process.extractOne by the workers
    result_df,           \* app.py:123 the table process_warehouse_file returned
    ui                   \* what the page shows: success, error, download, volumes

vars == <<product_dict, product_name_list, catalog_df, query, answer, pc,
          warehouse_df, product_names, quantities, total, volumes, step,
          futures, fut_i, fut_k, raised, match_calls, scorer_calls,
          result_df, ui>>

----------------------------------------------------------------------------
(* Bounds of the model *)
MaxRows == 5
MaxCatalog == 2
MaxQueryLen == 3

(* Program constants *)
\* score >= 80 (app.py:69)
THRESHOLD == 80
\* ThreadPoolExecutor(max_workers=4) (app.py:96)
MAX_WORKERS == 4
\* total // 4, range(4) and i < 3 (app.py:97-101)
N_CHUNKS == 4

None == <<>>
Some(v) == <<v>>

----------------------------------------------------------------------------
(* Sheet cells.  A name cell is missing (NaN) or text; a numeric cell is   *)
(* missing, text that is no number, or a number.                           *)
NaNName == [isna |-> TRUE, s |-> <<>>]
Text(s) == [isna |-> FALSE, s |-> s]
NaNNum == [kind |-> "nan", n |-> 0]
BadNum == [kind |-> "text", n |-> 0]
Num(n) == [kind |-> "num", n |-> n]

\* Series.fillna("").astype(str) on a name column (app.py:50, app.py:79)
fillna_str(cell) == IF cell.isna THEN <<>> ELSE cell.s

\* pd.to_numeric(..., errors="coerce").fillna(0) (app.py:51, app.py:80)
to_numeric_fillna0(cell) == IF cell.kind = "num" THEN cell.n ELSE 0

\* str.strip() (app.py:91): drop leading and trailing whitespace
RECURSIVE lstrip(_)
lstrip(s) == IF s # <<>> /\ Head(s) = " " THEN lstrip(Tail(s)) ELSE s
RECURSIVE rstrip(_)
rstrip(s) ==
    IF s # <<>> /\ s[Len(s)] = " " THEN rstrip(SubSeq(s, 1, Len(s) - 1)) ELSE s
strip(s) == rstrip(lstrip(s))

----------------------------------------------------------------------------
(* load_product_info (app.py:40-54) *)

\* names.tolist() (app.py:50, app.py:54)
catalog_names(df) == [i \in 1..Len(df) |-> fillna_str(df[i].name)]

\* cbms.tolist() (app.py:51)
catalog_cbms(df) == [i \in 1..Len(df) |-> to_numeric_fillna0(df[i].cbm)]

\* dict(zip(names, cbms)) with the first entry of a repeated name kept
dict_zip_first(names, cbms) ==
    [n \in {names[i] : i \in 1..Len(names)} |->
        cbms[CHOOSE i \in 1..Len(names) :
                /\ names[i] = n
                /\ \A j \in 1..Len(names) : names[j] = n => j >= i]]

\* dict(zip(names, cbms)) (app.py:53): a later entry overwrites an earlier one
dict_zip(names, cbms) ==
    [n \in {names[i] : i \in 1..Len(names)} |->
        cbms[CHOOSE i \in 1..Len(names) :
                /\ names[i] = n
                /\ \A j \in 1..Len(names) : names[j] = n => j <= i]]

----------------------------------------------------------------------------
(* rapidfuzz as called at app.py:66-68.  A score is the fraction           *)
(* <<num, den>>, worth 100 * num / den.                                    *)

ScoreLT(a, b) == a[1] * b[2] < b[1] * a[2]
ScoreEQ(a, b) == a[1] * b[2] = b[1] * a[2]
ScoreAtLeast(a, n) == 100 * a[1] >= n * a[2]
ScoreZero == <<0, 1>>
ScoreFull == <<1, 1>>

MaxScore(S) == CHOOSE x \in S : \A y \in S : ~ScoreLT(x, y)

\* length of a longest common subsequence
RECURSIVE LCS(_, _)
LCS(a, b) ==
    IF a = <<>> \/ b = <<>> THEN 0
    ELSE IF Head(a) = Head(b) THEN 1 + LCS(Tail(a), Tail(b))
    ELSE LET x == LCS(Tail(a), b)
             y == LCS(a, Tail(b))
         IN IF x >= y THEN x ELSE y

\* fuzz.ratio: the normalised Indel similarity, 2 * LCS / (len1 + len2)
ratio(a, b) ==
    IF a = <<>> /\ b = <<>> THEN ScoreFull
    ELSE <<2 * LCS(a, b), Len(a) + Len(b)>>

chars(s) == {s[i] : i \in 1..Len(s)}

\* the windows of s2 that partial_ratio aligns s1 with (Len(s1) <= Len(s2)):
\* the short prefixes, the full-width windows and the suffixes, each kept
\* only when its boundary character occurs in s1
windows(s1, s2) ==
    LET len1 == Len(s1)
        len2 == Len(s2)
    IN  IF len1 = 0 THEN {} ELSE
        {SubSeq(s2, 1, i) : i \in {j \in 1..(len1 - 1) : s2[j] \in chars(s1)}}
        \cup {SubSeq(s2, i + 1, i + len1) :
                i \in {j \in 0..(len2 - len1 - 1) : s2[j + len1] \in chars(s1)}}
        \cup {SubSeq(s2, i + 1, len2) :
                i \in {j \in (len2 - len1)..(len2 - 1) : s2[j + 1] \in chars(s1)}}

partial_ratio_impl(s1, s2) ==
    MaxScore({ScoreZero} \cup {ratio(s1, w) : w \in windows(s1, s2)})

\* fuzz.partial_ratio (app.py:67)
partial_ratio(s1, s2) ==
    IF s1 = <<>> /\ s2 = <<>> THEN ScoreFull
    ELSE LET shorter == IF Len(s1) <= Len(s2) THEN s1 ELSE s2
             longer == IF Len(s1) <= Len(s2) THEN s2 ELSE s1
             res == partial_ratio_impl(shorter, longer)
         IN IF ~ScoreEQ(res, ScoreFull) /\ Len(s1) = Len(s2)
            THEN MaxScore({res, partial_ratio_impl(longer, shorter)})
            ELSE res

\* the scan of process.extractOne from choice number i on, best being the
\* best seen so far (None before the first): a choice replaces best only
\* with a strictly higher score
RECURSIVE extract_scan(_, _, _, _)
extract_scan(q, choices, i, best) ==
    IF i > Len(choices) THEN best
    ELSE LET sc == partial_ratio(q, choices[i])
         IN extract_scan(q, choices, i + 1,
                IF best = None \/ ScoreLT(best[1].score, sc)
                THEN Some([match |-> choices[i], score |-> sc, index |-> i - 1])
                ELSE best)

\* the scan with a choice replacing best on an equal score as well
RECURSIVE extract_scan_last(_, _, _, _)
extract_scan_last(q, choices, i, best) ==
    IF i > Len(choices) THEN best
    ELSE LET sc == partial_ratio(q, choices[i])
         IN extract_scan_last(q, choices, i + 1,
                IF best = None \/ ~ScoreLT(sc, best[1].score)
                THEN Some([match |-> choices[i], score |-> sc, index |-> i - 1])
                ELSE best)

\* process.extractOne with the last of the best-scoring choices taken
extractOne_last(q, choices) == extract_scan_last(q, choices, 1, None)

\* process.extractOne (app.py:66-68): None for no choices, else the first of
\* the best-scoring choices with its score and position
extractOne(q, choices) == extract_scan(q, choices, 1, None)

----------------------------------------------------------------------------
(* match_product (app.py:62-69).  What a call gives: exc is the exception  *)
(* it raised ("none" when it returned), value the optional volume          *)
(* returned, scored whether process.extractOne was called, found what      *)
(* process.extractOne gave.                                                *)

Returned(v, scored, found) ==
    [exc |-> "none", value |-> v, scored |-> scored, found |-> found]
Raised(e, scored) ==
    [exc |-> e, value |-> None, scored |-> scored, found |-> None]

\* match_product without the exact-match test of app.py:64-65
match_product_fuzzy_only(name, pdict, plist) ==
    LET found == extractOne(name, plist)
    IN IF found = None THEN Raised("TypeError", TRUE)
       ELSE IF ScoreAtLeast(found[1].score, THRESHOLD)
            THEN Returned(Some(pdict[found[1].match]), TRUE, found)
            ELSE Returned(None, TRUE, found)

\* match_product with score > 80 in place of score >= 80
match_product_strict(name, pdict, plist) ==
    IF name \in DOMAIN pdict THEN Returned(Some(pdict[name]), FALSE, None)
    ELSE LET found == extractOne(name, plist)
         IN IF found = None THEN Raised("TypeError", TRUE)
            ELSE IF ~ScoreAtLeast(found[1].score, THRESHOLD)
                    \/ ScoreEQ(found[1].score, <<THRESHOLD, 100>>)
                 THEN Returned(None, TRUE, found)
                 ELSE Returned(Some(pdict[found[1].match]), TRUE, found)

\* match_product (app.py:62-69); unpacking the None that extractOne gives
\* for an empty list raises TypeError (app.py:66)
match_product(name, pdict, plist) ==
    IF name \in DOMAIN pdict THEN Returned(Some(pdict[name]), FALSE, None)
    ELSE LET found == extractOne(name, plist)
         IN IF found = None THEN Raised("TypeError", TRUE)
            ELSE IF ScoreAtLeast(found[1].score, THRESHOLD)
                 THEN Returned(Some(pdict[found[1].match]), TRUE, found)
                 ELSE Returned(None, TRUE, found)

----------------------------------------------------------------------------
(* The sheets the model is run on *)

BoundedSeq(S, n) == UNION {[1..k -> S] : k \in 0..n}

n_abc == <<"a", "b", "c">>
n_bca == <<"b", "c", "a">>
n_ab == <<"a", "b">>
n_zz == <<"z", "z">>

Entry(name, cbm) == [name |-> name, cbm |-> cbm]

\* catalog rows: a repeated name with two CBM values, a missing name with a
\* CBM, a CBM that is no number
CatalogPool ==
    { Entry(Text(n_abc), Num(3)), Entry(Text(n_bca), Num(5)),
      Entry(Text(n_bca), Num(7)), Entry(NaNName, Num(4)),
      Entry(Text(n_ab), BadNum) }

Catalogs == BoundedSeq(CatalogPool, MaxCatalog)

\* the catalogs the Calculate run is checked with
MainCatalogs ==
    { <<>>,
      <<Entry(Text(n_abc), Num(3)), Entry(Text(n_zz), Num(5))>>,
      <<Entry(NaNName, Num(4)), Entry(Text(n_bca), Num(5)),
        Entry(Text(n_bca), Num(7))>> }

QChars == {"a", "b", "c"}
Queries == BoundedSeq(QChars, MaxQueryLen)

Row(name, qty) == [name |-> name, qty |-> qty]

\* warehouse rows: a padded name, a missing name, a whitespace-only name with
\* a quantity that is no number, a name unlike the catalog's
RowPool ==
    { Row(Text(<<" ", "a", "b", "c">>), Num(2)), Row(NaNName, Num(3)),
      Row(Text(<<" ">>), BadNum), Row(Text(n_zz), Num(1)) }

Uploads == BoundedSeq(RowPool, MaxRows)

----------------------------------------------------------------------------
(* State after the script's top level has run up to app.py:57 *)

NoUi == [success |-> FALSE, errors |-> <<>>, download |-> None, shown |-> None]

Loaded(df) ==
    /\ catalog_df = df
    /\ product_dict = dict_zip(catalog_names(df), catalog_cbms(df))
    /\ product_name_list = catalog_names(df)

Idle ==
    /\ pc = "idle"
    /\ warehouse_df = <<>>
    /\ product_names = <<>>
    /\ quantities = <<>>
    /\ total = 0
    /\ volumes = <<>>
    /\ step = 0
    /\ futures = <<>>
    /\ fut_i = 0
    /\ fut_k = 0
    /\ raised = "none"
    /\ match_calls = {}
    /\ scorer_calls = {}
    /\ result_df = None
    /\ ui = NoUi

Init ==
    /\ \E df \in MainCatalogs : Loaded(df)
    /\ query = <<>>
    /\ answer = None
    /\ Idle

InitMatch ==
    /\ \E df \in Catalogs : Loaded(df)
    /\ query \in Queries
    /\ answer = None
    /\ Idle

catalog_vars == <<product_dict, product_name_list, catalog_df>>
run_vars == <<pc, warehouse_df, product_names, quantities, total, volumes, step,
              futures, fut_i, fut_k, raised, match_calls, scorer_calls,
              result_df, ui>>

----------------------------------------------------------------------------
(* A direct call of match_product on the loaded catalog *)

MatchCall ==
    /\ answer = None
    /\ answer' = Some(match_product(query, product_dict, product_name_list))
    /\ UNCHANGED <<query, catalog_vars, run_vars>>

NextMatch == MatchCall

SpecMatch == InitMatch /\ [][NextMatch]_vars

----------------------------------------------------------------------------
(* process_warehouse_file (app.py:75-114) run from the Calculate button    *)
(* (app.py:120-143)                                                        *)

Max2(a, b) == IF a >= b THEN a ELSE b

\* one pass of the loop body without the blank-name test of app.py:92
worker_row_unguarded(i, names, pdict, plist) ==
    IF i >= Len(names)
    THEN [exc |-> "IndexError", vol |-> None, called |-> {}, scored |-> {}]
    ELSE LET name == strip(names[i + 1])
             m == match_product(name, pdict, plist)
         IN [exc |-> m.exc, vol |-> m.value, called |-> {name},
             scored |-> IF m.scored THEN {name} ELSE {}]

\* one pass of worker's loop body (app.py:91-93) for the 0-based index i;
\* product_names[i] raises IndexError past the end of the list
worker_row(i, names, pdict, plist) ==
    IF i >= Len(names)
    THEN [exc |-> "IndexError", vol |-> None, called |-> {}, scored |-> {}]
    ELSE LET name == strip(names[i + 1])
         IN IF name # <<>>
            THEN LET m == match_product(name, pdict, plist)
                 IN [exc |-> m.exc, vol |-> m.value, called |-> {name},
                     scored |-> IF m.scored THEN {name} ELSE {}]
            ELSE [exc |-> "none", vol |-> None, called |-> {}, scored |-> {}]

\* the range handed to worker number i (app.py:100-101)
chunk_start(i, st) == i * st
chunk_end(i, st, n) == IF i < N_CHUNKS - 1 THEN (i + 1) * st ELSE n

\* st.button pressed with a file uploaded (app.py:120): app.py:76-86, the
\* pool is opened and step computed (app.py:96-98)
Calculate ==
    /\ pc = "idle"
    /\ \E df \in Uploads :
          /\ warehouse_df' = df
          /\ product_names' = [i \in 1..Len(df) |-> fillna_str(df[i].name)]
          /\ quantities' = [i \in 1..Len(df) |-> to_numeric_fillna0(df[i].qty)]
          /\ total' = Len(df)
          /\ step' = Max2(Len(df) \div N_CHUNKS, 1)
    /\ volumes' = <<>>
    /\ futures' = <<>>
    /\ fut_i' = 0
    /\ pc' = "submit"
    /\ UNCHANGED <<catalog_vars, query, answer, fut_k, raised, match_calls,
                   scorer_calls, result_df, ui>>

\* one pass of the submit loop (app.py:99-102)
Submit ==
    /\ pc = "submit"
    /\ futures' = Append(futures,
                     [start |-> chunk_start(fut_i, step),
                      end |-> chunk_end(fut_i, step, total),
                      i |-> chunk_start(fut_i, step),
                      state |-> "running", partial |-> <<>>, exc |-> "none"])
    /\ fut_i' = fut_i + 1
    /\ pc' = IF fut_i + 1 = N_CHUNKS THEN "collect" ELSE "submit"
    /\ UNCHANGED <<catalog_vars, query, answer, warehouse_df, product_names,
                   quantities, total, volumes, step, fut_k, raised,
                   match_calls, scorer_calls, result_df, ui>>

\* a pool thread runs worker (app.py:88-94) one row further; after the last
\* row of its range it returns partial, on an exception the future fails
WorkerStep(w) ==
    /\ w \in 1..Len(futures)
    /\ futures[w].state = "running"
    /\ \E r \in {worker_row(futures[w].i, product_names, product_dict,
                               product_name_list)} :
       LET f == futures[w]
       IN IF f.i >= f.end
          THEN /\ futures' = [futures EXCEPT ![w].state = "done"]
               /\ UNCHANGED <<match_calls, scorer_calls>>
          ELSE /\ match_calls' = match_calls \cup r.called
               /\ scorer_calls' = scorer_calls \cup r.scored
               /\ futures' =
                    IF r.exc # "none"
                    THEN [futures EXCEPT ![w].state = "failed", ![w].exc = r.exc]
                    ELSE [futures EXCEPT
                            ![w].partial = Append(f.partial, r.vol),
                            ![w].i = f.i + 1,
                            ![w].state = IF f.i + 1 >= f.end
                                         THEN "done" ELSE "running"]
    /\ UNCHANGED <<catalog_vars, query, answer, pc, warehouse_df, product_names,
                   quantities, total, volumes, step, fut_i, fut_k, raised,
                   result_df, ui>>

\* the collecting loop reading the futures last to first
Collect_reversed ==
    /\ pc = "collect"
    /\ LET f == futures[N_CHUNKS - fut_k]
       IN /\ f.state # "running"
          /\ IF f.state = "done"
             THEN /\ volumes' = volumes \o f.partial
                  /\ fut_k' = fut_k + 1
                  /\ pc' = IF fut_k + 1 = N_CHUNKS THEN "shutdown" ELSE "collect"
                  /\ UNCHANGED raised
             ELSE /\ raised' = f.exc
                  /\ pc' = "shutdown"
                  /\ UNCHANGED <<volumes, fut_k>>
    /\ UNCHANGED <<catalog_vars, query, answer, warehouse_df, product_names,
                   quantities, total, step, futures, fut_i, match_calls,
                   scorer_calls, result_df, ui>>

\* the collecting loop passing over a failed future
Collect_skip_failed ==
    /\ pc = "collect"
    /\ LET f == futures[fut_k + 1]
       IN /\ f.state # "running"
          /\ volumes' = volumes \o f.partial
          /\ fut_k' = fut_k + 1
          /\ pc' = IF fut_k + 1 = N_CHUNKS THEN "shutdown" ELSE "collect"
    /\ UNCHANGED <<catalog_vars, query, answer, warehouse_df, product_names,
                   quantities, total, step, futures, fut_i, raised, match_calls,
                   scorer_calls, result_df, ui>>

\* one pass of the collecting loop (app.py:103-104): f.result() blocks until
\* the future is finished, then gives its list or raises its exception
Collect ==
    /\ pc = "collect"
    /\ LET f == futures[fut_k + 1]
       IN /\ f.state # "running"
          /\ IF f.state = "done"
             THEN /\ volumes' = volumes \o f.partial
                  /\ fut_k' = fut_k + 1
                  /\ pc' = IF fut_k + 1 = N_CHUNKS THEN "shutdown" ELSE "collect"
                  /\ UNCHANGED raised
             ELSE /\ raised' = f.exc
                  /\ pc' = "shutdown"
                  /\ UNCHANGED <<volumes, fut_k>>
    /\ UNCHANGED <<catalog_vars, query, answer, warehouse_df, product_names,
                   quantities, total, step, futures, fut_i, match_calls,
                   scorer_calls, result_df, ui>>

\* leaving the with block (app.py:96) waits for every pool thread
pool_shut_down == \A w \in 1..Len(futures) : futures[w].state # "running"

\* pd.to_numeric(pd.Series(volumes), errors="coerce").fillna(0), put into the
\* table by row label (app.py:108): NaN where the series has no such label
volume_column(vols, n) ==
    [i \in 1..n |->
        IF i > Len(vols) THEN None
        ELSE IF vols[i] = None THEN Some(0) ELSE vols[i]]

\* df["Volume"] * quantities (app.py:109)
total_volume_column(vcol, qty) ==
    [i \in 1..Len(vcol) |->
        IF vcol[i] = None THEN None ELSE Some(vcol[i][1] * qty[i])]

\* Series.sum() (app.py:112): NaN is skipped, the empty sum is 0
RECURSIVE series_sum(_)
series_sum(col) ==
    IF col = <<>> THEN 0
    ELSE (IF Head(col) = None THEN 0 ELSE Head(col)[1]) + series_sum(Tail(col))

\* the table process_warehouse_file returns (app.py:108-114): the sheet's
\* rows with the two new columns, then the row holding only the grand total
build_result(df, vols, qty) ==
    LET vcol == volume_column(vols, Len(df))
        tcol == total_volume_column(vcol, qty)
    IN [i \in 1..Len(df) |->
            [row |-> Some(df[i]), Volume |-> vcol[i], TotalVolume |-> tcol[i]]]
       \o <<[row |-> None, Volume |-> None,
             TotalVolume |-> Some(series_sum(tcol))]>>

\* app.py:106-114 and 127-141: the table is built and offered for download
ReturnTable ==
    /\ pc = "shutdown"
    /\ pool_shut_down
    /\ raised = "none"
    /\ result_df' = Some(build_result(warehouse_df, volumes, quantities))
    /\ ui' = [ui EXCEPT !.shown = Some(SubSeq(volumes, 1,
                                        IF Len(volumes) < 10 THEN Len(volumes) ELSE 10)),
                        !.success = TRUE,
                        !.download = result_df']
    /\ pc' = "done"
    /\ UNCHANGED <<catalog_vars, query, answer, warehouse_df, product_names,
                   quantities, total, volumes, step, futures, fut_i, fut_k,
                   raised, match_calls, scorer_calls>>

\* app.py:142-143: the exception leaves process_warehouse_file and is shown
ReportError ==
    /\ pc = "shutdown"
    /\ pool_shut_down
    /\ raised # "none"
    /\ ui' = [ui EXCEPT !.errors = Append(ui.errors, raised)]
    /\ pc' = "error"
    /\ UNCHANGED <<catalog_vars, query, answer, warehouse_df, product_names,
                   quantities, total, volumes, step, futures, fut_i, fut_k,
                   raised, match_calls, scorer_calls, result_df>>

Next ==
    \/ Calculate
    \/ Submit
    \/ \E w \in 1..MAX_WORKERS : WorkerStep(w)
    \/ Collect
    \/ ReturnTable
    \/ ReportError

Spec == Init /\ [][Next]_vars

----------------------------------------------------------------------------
(* Properties *)

Finished == pc \in {"done", "error"}

\* the volumes the rows give when resolved one by one, first to last
SequentialVolumes ==
    [i \in 1..total |->
        LET name == strip(product_names[i])
        IN IF name = <<>> THEN None
           ELSE match_product(name, product_dict, product_name_list).value]

IsBlank(i) == strip(product_names[i]) = <<>>

\* the row indices range(start, end) runs over
Indices(f) == f.start..(f.end - 1)

\* C1: whatever the number of rows (0, 1 and 2 included), the run ends with
\* a table whose rows before the trailer are the sheet's rows, one for one
\* and in order, the Volume of row i being the resolution of name i.
C1_EveryInputKeepsRowsInOrder ==
    Finished =>
        /\ result_df # None
        /\ Len(result_df[1]) = total + 1
        /\ \A i \in 1..total :
              /\ result_df[1][i].row = Some(warehouse_df[i])
              /\ result_df[1][i].Volume =
                    (IF SequentialVolumes[i] = None THEN Some(0)
                     ELSE SequentialVolumes[i])

\* C2: whatever the input (the empty sheet included), the run ends with a
\* table that has exactly one trailer row, whose Total Volume is the sum of
\* the other rows' Total Volume, each being volume (0 if unresolved) times
\* quantity.
C2_EveryInputGetsTrailerTotal ==
    Finished =>
        /\ result_df # None
        /\ LET tbl == result_df[1]
           IN /\ Len(tbl) = total + 1
              /\ \A i \in 1..Len(tbl) : (tbl[i].row = None) <=> (i = Len(tbl))
              /\ \A i \in 1..total :
                    tbl[i].TotalVolume =
                        Some((IF SequentialVolumes[i] = None THEN 0
                              ELSE SequentialVolumes[i][1]) * quantities[i])
              /\ tbl[Len(tbl)].TotalVolume =
                    Some(series_sum([i \in 1..total |-> tbl[i].TotalVolume]))

\* the lists of the first k futures, joined in submission order
RECURSIVE JoinPartials(_, _)
JoinPartials(fs, k) ==
    IF k = 0 THEN <<>> ELSE JoinPartials(fs, k - 1) \o fs[k].partial

\* C3: whatever order the workers finish in, the caller's volumes list is
\* the futures' lists joined in submission order; the caller leaves the pool
\* only when every worker has finished, and the list it then holds is the
\* one obtained by resolving the rows one by one from first to last.
C3_VolumesInSubmissionOrder ==
    /\ fut_k <= Len(futures)
    /\ volumes = JoinPartials(futures, fut_k)
    /\ Finished => pool_shut_down
    /\ (pc \in {"shutdown", "done"} /\ raised = "none") =>
          volumes = SequentialVolumes

\* the caller has read the first future and waits for the second while the
\* fourth has already returned a two-row list
C3_Witness ==
    /\ pc = "collect"
    /\ fut_k = 1
    /\ volumes # <<>>
    /\ futures[2].state = "running"
    /\ futures[4].state = "done"
    /\ Len(futures[4].partial) = 2
    /\ futures[4].partial[1] # futures[4].partial[2]
    /\ futures[4].partial[1] # volumes[1]

\* C7: a row whose name is empty or whitespace-only gets volume None and
\* Total Volume 0, and no lookup is ever made for it, whatever the catalog
\* (one that keeps a blank name with a non-zero CBM included).
C7_BlankRowNeverLookedUp ==
    /\ <<>> \notin match_calls
    /\ <<>> \notin scorer_calls
    /\ \A w \in 1..Len(futures) :
          \A j \in 1..Len(futures[w].partial) :
              IsBlank(futures[w].start + j) => futures[w].partial[j] = None
    /\ \A i \in 1..Len(volumes) : IsBlank(i) => volumes[i] = None
    /\ pc = "done" =>
          \A i \in 1..total : IsBlank(i) => result_df[1][i].TotalVolume = Some(0)

\* a finished run over a catalog that maps the blank name to a non-zero CBM,
\* with a blank-named row of non-zero quantity
C7_Witness ==
    /\ pc = "done"
    /\ <<>> \in DOMAIN product_dict
    /\ product_dict[<<>>] # 0
    /\ \E i \in 1..total :
          /\ IsBlank(i)
          /\ quantities[i] # 0
          /\ warehouse_df[i].name.isna
    /\ \E i \in 1..total : IsBlank(i) /\ ~warehouse_df[i].name.isna
    /\ match_calls # {}

\* C8: once a worker has failed, no table is returned, nothing is offered
\* for download, no volumes are shown, and the run ends with exactly one
\* error on the page, whichever worker failed and whatever the others did.
AnyWorkerFailed == \E w \in 1..Len(futures) : futures[w].state = "failed"

C8_WorkerFailureIsOneError ==
    /\ Len(ui.errors) <= 1
    /\ AnyWorkerFailed =>
          /\ pc # "done"
          /\ result_df = None
          /\ ~ui.success
          /\ ui.download = None
          /\ ui.shown = None
          /\ (pc = "shutdown" /\ pool_shut_down) => raised # "none"
          /\ pc = "error" => Len(ui.errors) = 1
    /\ pc = "error" => AnyWorkerFailed

\* the second worker failed after the first had returned a list the caller
\* had already taken, and the third returned one too
C8_Witness ==
    /\ pc = "error"
    /\ volumes # <<>>
    /\ futures[1].state = "done"
    /\ futures[2].state = "failed"
    /\ futures[3].state = "done"
    /\ futures[3].partial # <<>>

\* C9: a missing name, a quantity that is no number or a name that matches
\* nothing never makes the run fail: whatever the catalog (the empty one
\* included) and the rows, the run ends with a complete table.
C9_RowIssuesNeverFail ==
    /\ ~AnyWorkerFailed
    /\ raised = "none"
    /\ ui.errors = <<>>
    /\ Finished => (pc = "done" /\ result_df # None /\ Len(result_df[1]) = total + 1)

\* C10: for every row count the four ranges handed to the pool lie within
\* [0, total), are disjoint and contiguous, and together hold every index
\* 0..total-1 exactly once.
C10_RangesPartitionRows ==
    /\ \A w \in 1..Len(futures) :
          /\ Indices(futures[w]) \subseteq 0..(total - 1)
          /\ futures[w].start <= futures[w].end
          /\ w > 1 => futures[w].start = futures[w - 1].end
          /\ \A v \in 1..Len(futures) :
                v # w => Indices(futures[v]) \cap Indices(futures[w]) = {}
    /\ Len(futures) = N_CHUNKS =>
          UNION {Indices(futures[w]) : w \in 1..N_CHUNKS} = 0..(total - 1)

----------------------------------------------------------------------------
(* Properties of match_product, checked under SpecMatch *)

Called == answer # None
Names == catalog_names(catalog_df)
Cbms == catalog_cbms(catalog_df)

\* the highest score the query reaches against any catalog name
TopScore == MaxScore({partial_ratio(query, Names[i]) : i \in 1..Len(Names)})

\* the first catalog row whose name reaches the highest score
FirstTop ==
    CHOOSE i \in 1..Len(Names) :
        /\ ScoreEQ(partial_ratio(query, Names[i]), TopScore)
        /\ \A j \in 1..(i - 1) : ScoreLT(partial_ratio(query, Names[j]), TopScore)

\* the last catalog row that bears the name n
LastRowOf(n) ==
    CHOOSE i \in 1..Len(Names) :
        Names[i] = n /\ \A j \in (i + 1)..Len(Names) : Names[j] # n

InCatalog(n) == \E i \in 1..Len(Names) : Names[i] = n

\* C4: a query that is a catalog name verbatim gets the mapping's volume for
\* that name, and the fuzzy scorer is not called, even where the fuzzy
\* search would have picked another entry.
C4_ExactMatchFirst ==
    (Called /\ InCatalog(query)) =>
        /\ answer[1].exc = "none"
        /\ answer[1].value = Some(Cbms[LastRowOf(query)])
        /\ ~answer[1].scored

\* an exact query for which the fuzzy search picks a row with another name
\* and another volume
C4_Witness ==
    /\ Called
    /\ InCatalog(query)
    /\ Names[FirstTop] # query
    /\ Cbms[LastRowOf(Names[FirstTop])] # Cbms[LastRowOf(query)]

\* C5: a query that is no catalog name gets a best-scoring name's volume
\* when the best score is 80 or more, and None when it is below 80.
C5_ThresholdInclusive ==
    (Called /\ ~InCatalog(query) /\ Names # <<>>) =>
        /\ answer[1].exc = "none"
        /\ answer[1].scored
        /\ IF ScoreAtLeast(TopScore, THRESHOLD)
           THEN \E i \in 1..Len(Names) :
                   /\ ScoreEQ(partial_ratio(query, Names[i]), TopScore)
                   /\ answer[1].value = Some(product_dict[Names[i]])
           ELSE answer[1].value = None

\* a fuzzy query whose best score is exactly 80, answered with a volume
C5_Witness ==
    /\ Called
    /\ ~InCatalog(query)
    /\ Names # <<>>
    /\ ScoreEQ(TopScore, <<THRESHOLD, 100>>)
    /\ answer[1].value # None

\* C6 as claimed: in the fuzzy branch the first of the highest-scoring rows
\* is selected and the volume returned is that row's own CBM, also when its
\* name occurs in several rows with different CBM values.
C6_SelectedRowsOwnVolume ==
    (Called /\ answer[1].found # None) =>
        /\ answer[1].found[1].index + 1 = FirstTop
        /\ ScoreAtLeast(TopScore, THRESHOLD) =>
              answer[1].value = Some(Cbms[FirstTop])

\* C6 as amended: in the fuzzy branch the first of the highest-scoring rows
\* is selected and the volume returned is the CBM of the last catalog row
\* bearing the selected row's name.
C6_SelectedNamesLastVolume ==
    (Called /\ answer[1].found # None) =>
        /\ answer[1].found[1].index + 1 = FirstTop
        /\ answer[1].found[1].match = Names[FirstTop]
        /\ ScoreAtLeast(TopScore, THRESHOLD) =>
              answer[1].value = Some(Cbms[LastRowOf(Names[FirstTop])])

\* a fuzzy answer whose selected name occurs in two rows with different CBMs
C6_Witness ==
    /\ Called
    /\ answer[1].found # None
    /\ ScoreAtLeast(TopScore, THRESHOLD)
    /\ LastRowOf(Names[FirstTop]) # FirstTop
    /\ Cbms[LastRowOf(Names[FirstTop])] # Cbms[FirstTop]
    /\ answer[1].value = Some(Cbms[LastRowOf(Names[FirstTop])])

====
